---- MODULE Spec2Model ----
(***************************************************************************)
(* Model of the amfi NAV feed parser (src/src/lib.rs).                     *)
(*                                                                         *)
(* A Rust &str is modelled as a sequence of characters, each character a   *)
(* one-character TLA+ string.  Byte offsets matter in the source (the      *)
(* lexers count characters and slice by byte offset), so every character   *)
(* has a UTF-8 length (ByteLen) and slicing goes through ByteSplit.        *)
(* Option<T> is a sequence of length 0 (None) or 1 (Some).                 *)
(***************************************************************************)
EXTENDS Integers, Sequences, FiniteSets, TLC

\* ------------------------------------------------------------------------
\* Characters
\* ------------------------------------------------------------------------

LowerLetters == <<"a","b","c","d","e","f","g","h","i","j","k","l","m",
                  "n","o","p","q","r","s","t","u","v","w","x","y","z">>
UpperLetters == <<"A","B","C","D","E","F","G","H","I","J","K","L","M",
                  "N","O","P","Q","R","S","T","U","V","W","X","Y","Z">>
DigitChars == <<"0","1","2","3","4","5","6","7","8","9">>

\* U+00A0 NO-BREAK SPACE: White_Space, two bytes in UTF-8.
NBSP == " "

Range(s) == {s[i] : i \in DOMAIN s}

AsciiDigits == Range(DigitChars)
Alphanumerics ==
    Range(LowerLetters) \cup Range(UpperLetters) \cup Range(DigitChars)
        \cup {"é", "É"}

\* Number of UTF-8 bytes of a character (str is UTF-8; offsets are bytes).
ByteLen(c) == IF c \in {"é", "É", NBSP} THEN 2 ELSE 1

\* char::is_whitespace
IsWhitespace(c) == c \in {" ", "\t", "\n", "\r", NBSP}

\* char::is_digit(10): ASCII digits only
IsDigit(c) == c \in AsciiDigits

\* char::is_alphanumeric: Unicode letters and digits
IsAlphanumeric(c) == c \in Alphanumerics

\* value of an ASCII digit
DigitVal(c) == (CHOOSE i \in DOMAIN DigitChars : DigitChars[i] = c) - 1

\* char::to_uppercase, one character
UpperChar(c) ==
    IF c \in Range(LowerLetters)
    THEN UpperLetters[CHOOSE i \in DOMAIN LowerLetters : LowerLetters[i] = c]
    ELSE IF c = "é" THEN "É" ELSE c

\* ------------------------------------------------------------------------
\* str helpers
\* ------------------------------------------------------------------------

\* str::to_uppercase
ToUppercase(s) == [i \in DOMAIN s |-> UpperChar(s[i])]

Drop(s, k) == SubSeq(s, k + 1, Len(s))
Take(s, k) == SubSeq(s, 1, k)

\* str::len, in bytes
RECURSIVE ByteSize(_)
ByteSize(s) == IF s = <<>> THEN 0 ELSE ByteLen(Head(s)) + ByteSize(Tail(s))

\* str::starts_with
StartsWith(s, p) == Len(p) <= Len(s) /\ Take(s, Len(p)) = p

\* str::find(p): the character index (0-based) of the first occurrence of
\* p in s, or -1 when p does not occur.
FindFrom(s, p) ==
    LET hits == {k \in 0..(Len(s) - Len(p)) : SubSeq(s, k + 1, k + Len(p)) = p}
    IN  IF hits = {} THEN -1
        ELSE CHOOSE k \in hits : \A j \in hits : k <= j

Contains(s, p) == FindFrom(s, p) >= 0

\* number of leading characters of s that satisfy the class test
RECURSIVE LeadingWhitespace(_)
LeadingWhitespace(s) ==
    IF s # <<>> /\ IsWhitespace(Head(s)) THEN 1 + LeadingWhitespace(Tail(s)) ELSE 0

RECURSIVE TrailingWhitespace(_)
TrailingWhitespace(s) ==
    IF s # <<>> /\ IsWhitespace(s[Len(s)])
    THEN 1 + TrailingWhitespace(Take(s, Len(s) - 1)) ELSE 0

\* str::trim
Trim(s) ==
    LET a == LeadingWhitespace(s)
    IN  IF a = Len(s) THEN <<>>
        ELSE SubSeq(s, a + 1, Len(s) - TrailingWhitespace(s))

\* The character index at which byte offset n falls, or -1 when n is past
\* the end or inside a multi-byte character (where &s[n..] panics).
ByteBoundary(s, n) ==
    LET ks == {k \in 0..Len(s) : ByteSize(Take(s, k)) = n}
    IN  IF ks = {} THEN -1 ELSE CHOOSE k \in ks : TRUE

\* ------------------------------------------------------------------------
\* synom::IResult, extended with the abort (panic) outcome of a lexer
\* ------------------------------------------------------------------------

Done(rem, val) == [st |-> "Done", rem |-> rem, val |-> val]
Error == [st |-> "Error"]
Panic == [st |-> "Panic"]

None == <<>>
Some(x) == <<x>>

\* ------------------------------------------------------------------------
\* Field lexers
\* ------------------------------------------------------------------------

\* the `for ch in input.chars()` loops: how many leading characters pass
RECURSIVE CountSeparator(_)
CountSeparator(s) ==
    IF s # <<>> /\ (IsWhitespace(Head(s)) \/ Head(s) = ";")
    THEN 1 + CountSeparator(Tail(s)) ELSE 0

RECURSIVE CountAlphanumeric(_)
CountAlphanumeric(s) ==
    IF s # <<>> /\ IsAlphanumeric(Head(s))
    THEN 1 + CountAlphanumeric(Tail(s)) ELSE 0

RECURSIVE CountDigit(_)
CountDigit(s) ==
    IF s # <<>> /\ IsDigit(Head(s)) THEN 1 + CountDigit(Tail(s)) ELSE 0

\* the loop of double(): the characters passed before the first one that is
\* neither a digit nor the first '.' (seen_decimal_sign: a '.' came before s)
CountDouble(s, seen_decimal_sign) ==
    LET stop == {i \in 1..Len(s) :
                    /\ ~IsDigit(s[i])
                    /\ ~(/\ s[i] = "."
                         /\ ~seen_decimal_sign
                         /\ \A j \in 1..(i - 1) : s[j] # ".")}
    IN  IF stop = {} THEN Len(s)
        ELSE (CHOOSE i \in stop : \A j \in stop : i <= j) - 1

\* &input[pos..] paired with &input[..pos]: pos is a BYTE offset.  The
\* result is the character index of the split, or -1 where the slice
\* expression panics (offset inside a character).
ByteSplit(input, pos) == ByteBoundary(input, pos)

custom_seperator(input) ==
    LET pos == CountSeparator(input)
        k   == ByteSplit(input, pos)
    IN  IF k < 0 THEN Panic ELSE Done(Drop(input, k), <<>>)

alphanumeric(input) ==
    LET pos == CountAlphanumeric(input)
        k   == ByteSplit(input, pos)
    IN  IF pos > 0
        THEN IF k < 0 THEN Panic ELSE Done(Drop(input, k), Take(input, k))
        ELSE Error

\* Decimal digit strings stand for unsigned integers of any size (a u32
\* does not fit the model checker's integers).  The canonical form of a
\* value is its digits without leading zeros.
RECURSIVE StripLeadingZeros(_)
StripLeadingZeros(ds) ==
    IF Len(ds) > 1 /\ Head(ds) = "0" THEN StripLeadingZeros(Tail(ds)) ELSE ds

RECURSIVE DigitsLess(_, _)
\* a < b for canonical digit strings of equal length
DigitsLess(a, b) ==
    IF a = <<>> THEN FALSE
    ELSE IF DigitVal(Head(a)) # DigitVal(Head(b))
         THEN DigitVal(Head(a)) < DigitVal(Head(b))
         ELSE DigitsLess(Tail(a), Tail(b))

\* u32::MAX = 4294967295
U32MaxDigits == <<"4","2","9","4","9","6","7","2","9","5">>

FitsU32(ds) ==
    LET c == StripLeadingZeros(ds)
    IN  \/ Len(c) < Len(U32MaxDigits)
        \/ Len(c) = Len(U32MaxDigits) /\ ~DigitsLess(U32MaxDigits, c)

\* str::parse::<u32>() of a non-empty run of ASCII digits: Some(value) or
\* None (the Err that .unwrap() turns into a panic)
ParseU32(ds) == IF FitsU32(ds) THEN Some(StripLeadingZeros(ds)) ELSE None

digit(input) ==
    LET pos == CountDigit(input)
        v   == ParseU32(Take(input, pos))
    IN  IF pos > 0
        THEN IF v = None THEN Panic ELSE Done(Drop(input, pos), v[1])
        ELSE Error

\* ds without its trailing zeros
StripTrailingZeros(ds) ==
    LET nz == {i \in 1..Len(ds) : ds[i] # "0"}
    IN  IF ds = <<>> \/ nz = {} THEN <<>>
        ELSE Take(ds, CHOOSE i \in nz : \A j \in nz : j <= i)

\* ------------------------------------------------------------------------
\* f64
\* ------------------------------------------------------------------------
\* Naturals of any size: the decimal digits as numbers, most significant
\* first, none for zero.
NatNorm(a) ==
    LET nz == {i \in 1..Len(a) : a[i] # 0}
    IN  IF a = <<>> \/ nz = {} THEN <<>>
        ELSE SubSeq(a, CHOOSE i \in nz : \A j \in nz : i <= j, Len(a))

\* the digit of a at 10^(i-1)
NatDigit(a, i) == IF i <= Len(a) THEN a[Len(a) + 1 - i] ELSE 0

\* the natural with the digit f[i] at 10^(i-1), i in 1..n
NatOfDigits(f, n) == NatNorm(SubSeq([j \in 1..n |-> f[n + 1 - j]], 1, n))

\* a * 10^p
NatShift(a, p) == IF a = <<>> THEN a ELSE a \o [i \in 1..p |-> 0]

NatLess(a, b) ==
    \/ Len(a) < Len(b)
    \/ /\ Len(a) = Len(b)
       /\ \E i \in 1..Len(a) : a[i] < b[i] /\ \A j \in 1..(i - 1) : a[j] = b[j]

NatLeq(a, b) == ~NatLess(b, a)

\* a + b: a carry enters position i when a lower position overflows and
\* every position between is a 9
NatAdd(a, b) ==
    LET n == (IF Len(a) > Len(b) THEN Len(a) ELSE Len(b)) + 1
        s == SubSeq([i \in 1..n |-> NatDigit(a, i) + NatDigit(b, i)], 1, n)
        c == [i \in 1..n |->
                IF \E j \in 1..(i - 1) :
                      s[j] >= 10 /\ \A l \in (j + 1)..(i - 1) : s[l] = 9
                THEN 1 ELSE 0]
    IN  IF a = <<>> THEN b
        ELSE IF b = <<>> THEN a
        ELSE NatOfDigits([i \in 1..n |-> (s[i] + c[i]) % 10], n)

\* a - b, for a >= b
NatSub(a, b) ==
    LET n == Len(a)
        t == SubSeq([i \in 1..n |-> NatDigit(a, i) - NatDigit(b, i)], 1, n)
        w == [i \in 1..n |->
                IF \E j \in 1..(i - 1) :
                      t[j] < 0 /\ \A l \in (j + 1)..(i - 1) : t[l] = 0
                THEN 1 ELSE 0]
    IN  IF a = <<>> \/ b = <<>> THEN a
        ELSE NatOfDigits([i \in 1..n |-> (t[i] - w[i] + 10) % 10], n)

RECURSIVE SumOver(_, _, _)
\* f[lo] + ... + f[hi]
SumOver(f, lo, hi) ==
    IF lo > hi THEN 0
    ELSE IF lo = hi THEN f[lo]
    ELSE LET mid == (lo + hi) \div 2
         IN  SumOver(f, lo, mid) + SumOver(f, mid + 1, hi)

\* the sums of the digit products of a and b that stand at 10^(k-1)
NatColumns(a, b) ==
    LET n == Len(a) + Len(b)
    IN  SubSeq([k \in 1..n |->
                  SumOver([i \in 1..k |-> NatDigit(a, i) * NatDigit(b, k + 1 - i)],
                          1, k)], 1, n)

\* the natural with the column sums col, each below 10^6: the digits of
\* the sums at each decimal place, added
NatOfColumns(col) ==
    LET n == Len(col)
        part(p, q) == NatShift(NatOfDigits([k \in 1..n |-> (col[k] \div q) % 10], n), p)
    IN  IF col = <<>> THEN <<>>
        ELSE NatAdd(NatAdd(NatAdd(part(0, 1), part(1, 10)),
                           NatAdd(part(2, 100), part(3, 1000))),
                    NatAdd(part(4, 10000), part(5, 100000)))

\* a * b
NatMul(a, b) ==
    IF a = <<>> \/ b = <<>> THEN <<>> ELSE NatOfColumns(NatColumns(a, b))

RECURSIVE NatDoubled(_, _)
\* a * 2^u
NatDoubled(a, u) == IF u = 0 THEN a ELSE NatDoubled(NatAdd(a, a), u - 1)

\* h * h * 2^bit
NatPowStep(h, bit) == NatDoubled(NatMul(h, h), bit)

RECURSIVE NatPow2(_)
\* 2^n
NatPow2(n) ==
    IF n = 0 THEN <<1>> ELSE NatPowStep(NatPow2(n \div 2), n % 2)

RECURSIVE NatMultiplesFrom(_, _)
\* t = <<0 * b, ..., i * b>> and the multiples after it, to 10 * b
NatMultiplesFrom(t, b) ==
    IF Len(t) = 11 THEN t
    ELSE NatMultiplesFrom(Append(t, NatAdd(t[Len(t)], b)), b)

\* 0 * b, 1 * b, ..., 10 * b
NatMultiples(b) == NatMultiplesFrom(<<<<>>>>, b)

\* the d with d * b * 10^p <= a < (d + 1) * b * 10^p, mb the multiples of b
NatQuoDigit(a, mb, p) ==
    CHOOSE d \in 0..9 :
        NatLeq(NatShift(mb[d + 1], p), a) /\ NatLess(a, NatShift(mb[d + 2], p))

RECURSIVE NatDivLoop(_, _, _)
\* the digits of the quotient from 10^p down, after those in st.q
NatDivLoop(st, mb, p) ==
    IF st.r = <<>> \/ p < 0
    THEN [q |-> NatNorm(st.q \o [i \in 1..(p + 1) |-> 0]), r |-> st.r]
    ELSE LET d == NatQuoDigit(st.r, mb, p)
         IN  NatDivLoop([r |-> IF d = 0 THEN st.r
                               ELSE NatSub(st.r, NatShift(mb[d + 1], p)),
                         q |-> Append(st.q, d)],
                        mb, p - 1)

\* quotient and remainder of a by b > 0, for a < b * 10^n
NatDivMod(a, b, n) ==
    IF b = <<>> THEN [q |-> <<>>, r |-> a]
    ELSE NatDivLoop([r |-> a, q |-> <<>>], NatMultiples(b), n - 1)

\* An f64 that is finite and positive is mant * 2^exp with
\* 2^52 <= mant < 2^53 (normal) or exp = MinExp and mant < 2^52 (subnormal).
MantBits == 52
MinExp == -1074
MaxExp == 971
\* 2^52 and 2^53
MinNormalMant == <<4,5,0,3,5,9,9,6,2,7,3,7,0,4,9,6>>
MantLimit == <<9,0,0,7,1,9,9,2,5,4,7,4,0,9,9,2>>
\* every f64 is below 10^MaxDecimal, and 10^MinDecimal is below half the
\* least positive f64
MaxDecimal == 309
MinDecimal == -324

\* a, 2a, 4a, ..., 128a
NatDoublings(a) == SubSeq([i \in 1..8 |-> NatDoubled(a, i - 1)], 1, 8)

\* the c with t[c + 1] <= r < t[c + 2]
NatBetween(t, r) ==
    CHOOSE c \in 0..6 : NatLeq(t[c + 1], r) /\ NatLess(r, t[c + 2])

\* FloorLog2 with p = 2^|lo|
FloorLog2With(n, k, lo, p) ==
    lo + NatBetween(NatDoublings(NatShift(IF lo >= 0 THEN p ELSE <<1>>, k)),
                    IF lo >= 0 THEN n ELSE NatMul(n, p))

\* the f with 2^f <= n / 10^k < 2^(f+1), one of lo..lo+6
FloorLog2(n, k, lo) ==
    FloorLog2With(n, k, lo, NatPow2(IF lo >= 0 THEN lo ELSE 0 - lo))

Odd(a) == a # <<>> /\ a[Len(a)] % 2 = 1

\* An f64: [mant, exp], mant = <<>> for zero, exp > MaxExp for infinity
F64Infinite == [mant |-> <<1>>, exp |-> MaxExp + 1]
F64Zero == [mant |-> <<>>, exp |-> MinExp]

\* the mantissa m at the exponent exp: 2^53 is 2^52 at the next exponent
F64Of(m, exp) ==
    IF m = MantLimit THEN [mant |-> MinNormalMant, exp |-> exp + 1]
    ELSE [mant |-> m, exp |-> exp]

\* the quotient d.q of a division by b with the remainder d.r, rounded to
\* the nearest natural, ties to the even one
RoundedQuo(d, b) ==
    LET twor == NatAdd(d.r, d.r)
    IN  IF NatLess(b, twor) \/ (twor = b /\ Odd(d.q)) THEN NatAdd(d.q, <<1>>)
        ELSE d.q

\* a / b rounded, for a < b * 10^17
NearestQuo(a, b) == RoundedQuo(NatDivMod(a, b, 17), b)

\* NearestAt with p = 2^|exp|
NearestWith(n, k, exp, p) ==
    F64Of(NearestQuo(IF exp < 0 THEN NatMul(n, p) ELSE n,
                     NatShift(IF exp < 0 THEN <<1>> ELSE p, k)),
          exp)

\* the f64 nearest to n / 10^k among the multiples of 2^exp
NearestAt(n, k, exp) ==
    IF exp > MaxExp THEN F64Infinite
    ELSE NearestWith(n, k, exp, NatPow2(IF exp < 0 THEN 0 - exp ELSE exp))

\* the f64 between 2^f and 2^(f+1) is a multiple of 2^(f - 52), a
\* subnormal one of 2^-1074
NearestFrom(n, k, f) ==
    NearestAt(n, k, IF f - MantBits < MinExp THEN MinExp ELSE f - MantBits)

\* the f64 nearest to n / 10^k (n > 0), ties to the even mantissa; with
\* dec = Len(n) - k, 10^(dec-1) <= n / 10^k < 10^dec
NearestF64(n, k) ==
    IF Len(n) - k > MaxDecimal THEN F64Infinite
    ELSE IF Len(n) - k < MinDecimal + 1 THEN F64Zero
    ELSE NearestFrom(n, k,
             FloorLog2(n, k, ((Len(n) - k - 1) * 3321928) \div 1000000 - 1))

\* The shortest decimal that reads back as the f64 x, nearest to x when
\* there are several: r / s is what is left of x / 10^k, mp / s and mm / s
\* are half the gaps to the next f64 above and below, incl says the ends
\* of the interval read back as x (even mantissa).
ShortestWith(x, p2, q2, u, k) ==
    [r    |-> NatShift(NatDoubled(NatMul(x.mant, p2), u), IF k >= 0 THEN 0 ELSE 0 - k),
     s    |-> NatShift(NatDoubled(q2, u), IF k >= 0 THEN k ELSE 0),
     mp   |-> NatShift(NatDoubled(p2, u - 1), IF k >= 0 THEN 0 ELSE 0 - k),
     mm   |-> NatShift(p2, IF k >= 0 THEN 0 ELSE 0 - k),
     k    |-> k,
     incl |-> ~Odd(x.mant),
     ds   |-> <<>>]

\* x = mant * p / q with p = 2^exp, q = 1 or p = 1, q = 2^-exp; u = 2 where
\* the gap below x is half the gap above (least mantissa), else 1; k is
\* within one of the decimal exponent of x
ShortestFrom(x, p, u) ==
    ShortestWith(x, IF x.exp >= 0 THEN p ELSE <<1>>, IF x.exp >= 0 THEN <<1>> ELSE p,
                 u, (x.exp * 30103) \div 100000 + Len(x.mant) - 1)

ShortestStart(x) ==
    ShortestFrom(x, NatPow2(IF x.exp >= 0 THEN x.exp ELSE 0 - x.exp),
                 IF x.mant = MinNormalMant /\ x.exp > MinExp THEN 2 ELSE 1)

Above(g) == LET t == NatAdd(g.r, g.mp)
            IN  IF g.incl THEN NatLeq(g.s, t) ELSE NatLess(g.s, t)

Below(g) == IF g.incl THEN NatLeq(g.r, g.mm) ELSE NatLess(g.r, g.mm)

Times10(g) == [g EXCEPT !.r = NatShift(@, 1), !.mp = NatShift(@, 1),
                        !.mm = NatShift(@, 1)]

RECURSIVE ShortestScale(_)
\* the decimal exponent k: x with its upper gap lies in (10^(k-1), 10^k)
ShortestScale(g) ==
    IF Above(g)
    THEN ShortestScale([g EXCEPT !.s = NatShift(@, 1), !.k = @ + 1])
    ELSE IF ~Above(Times10(g))
    THEN ShortestScale([Times10(g) EXCEPT !.k = @ - 1])
    ELSE g

RECURSIVE ShortestDigits(_, _)

\* after the digit d, with h what is left: stop with d or with d + 1
\* (whichever is nearer, d + 1 at a tie) once the interval is reached
ShortestEnd(g, h, d, ms) ==
    LET low  == Below(h)
        high == Above(h)
    IN  IF ~low /\ ~high THEN ShortestDigits(h, ms)
        ELSE IF low /\ ~high THEN h.ds
        ELSE IF high /\ ~low THEN Append(g.ds, d + 1)
        ELSE IF NatLess(NatAdd(h.r, h.r), h.s) THEN h.ds
        ELSE Append(g.ds, d + 1)

\* the next digit d of t = 10 * g
ShortestStep(g, t, d, ms) ==
    ShortestEnd(g,
                [t EXCEPT !.r = IF d = 0 THEN t.r ELSE NatSub(t.r, ms[d + 1]),
                          !.ds = Append(@, d)],
                d, ms)

\* the digits: those generated so far (g.ds) and the rest, ms the multiples
\* of g.s
ShortestDigits(g, ms) ==
    IF g.r = <<>> THEN g.ds
    ELSE ShortestStep(g, Times10(g), NatQuoDigit(Times10(g).r, ms, 0), ms)

Infinity == [int |-> <<"i","n","f">>, frac |-> <<>>]

\* the digits cs with the decimal point after the first k
PointAt(cs, k) ==
    IF k <= 0
    THEN [int |-> <<"0">>, frac |-> [i \in 1..(0 - k) |-> "0"] \o cs]
    ELSE IF k >= Len(cs)
    THEN [int |-> cs \o [i \in 1..(k - Len(cs)) |-> "0"], frac |-> <<>>]
    ELSE [int |-> Take(cs, k), frac |-> Drop(cs, k)]

DigitCharsOf(ds) == [i \in 1..Len(ds) |-> DigitChars[ds[i] + 1]]

ShortestOf(g) == PointAt(DigitCharsOf(ShortestDigits(g, NatMultiples(g.s))), g.k)

\* the f64 x as Display writes it: the shortest digits, no exponent
F64Digits(x) ==
    IF x.mant = <<>> THEN [int |-> <<"0">>, frac |-> <<>>]
    ELSE IF x.exp > MaxExp THEN Infinity
    ELSE ShortestOf(ShortestScale(ShortestStart(x)))

\* f64 holds every decimal of at most 15 significant digits apart:
\* 10^15 < 2^52
ExactDigits == 15

\* str::parse::<f64>() of a run of ASCII digits with at most one '.':
\* Some(value) or None.  Only a run without any digit is rejected.  The
\* value is the f64 nearest to the decimal written, held as the digits that
\* Display writes for it (integer digits, fraction digits).  A decimal of
\* at most ExactDigits digits is itself the shortest decimal that reads back
\* as its f64, so Display writes it again, in canonical form.
ParseF64(tok) ==
    LET d    == FindFrom(tok, <<".">>)
        ip   == IF d < 0 THEN tok ELSE Take(tok, d)
        fp   == StripTrailingZeros(IF d < 0 THEN <<>> ELSE Drop(tok, d + 1))
        ds   == ip \o fp
        n    == NatNorm([i \in 1..Len(ds) |-> DigitVal(ds[i])])
    IN  IF Len(tok) = (IF d < 0 THEN 0 ELSE 1) THEN None
        ELSE IF n = <<>> THEN Some([int |-> <<"0">>, frac |-> <<>>])
        ELSE IF Len(ds) <= ExactDigits
        THEN Some([int  |-> StripLeadingZeros(IF ip = <<>> THEN <<"0">> ELSE ip),
                   frac |-> fp])
        ELSE Some(F64Digits(NearestF64(n, Len(fp))))

\* the Done or the panic of double() for the run of pos characters
DoubleOf(v, rem) == IF v = None THEN Panic ELSE Done(rem, v[1])

DoubleAt(input, pos) ==
    IF pos > 0 THEN DoubleOf(ParseF64(Take(input, pos)), Drop(input, pos))
    ELSE Error

double(input) == DoubleAt(input, CountDouble(input, FALSE))

\* ------------------------------------------------------------------------
\* chrono::NaiveDate::parse_from_str(slice, "%d-%b-%Y")
\* ------------------------------------------------------------------------

RECURSIVE DigitsToInt(_)
DigitsToInt(ds) ==
    IF ds = <<>> THEN 0
    ELSE 10 * DigitsToInt(Take(ds, Len(ds) - 1)) + DigitVal(ds[Len(ds)])

Min(a, b) == IF a < b THEN a ELSE b

\* a numeric item: leading whitespace is skipped, then between lo and hi
\* digits are taken
ScanNumber(s, lo, hi) ==
    LET n == Min(CountDigit(s), hi)
    IN  IF n < lo THEN Error ELSE Done(Drop(s, n), DigitsToInt(Take(s, n)))

MonthNames == << <<"J","A","N">>, <<"F","E","B">>, <<"M","A","R">>,
                 <<"A","P","R">>, <<"M","A","Y">>, <<"J","U","N">>,
                 <<"J","U","L">>, <<"A","U","G">>, <<"S","E","P">>,
                 <<"O","C","T">>, <<"N","O","V">>, <<"D","E","C">> >>

\* %b: a three-letter month abbreviation, in any letter case
ScanShortMonth(s) ==
    LET head == ToUppercase(Take(s, Min(3, Len(s))))
        ms   == {m \in DOMAIN MonthNames : MonthNames[m] = head}
    IN  IF ms = {} THEN Error ELSE Done(Drop(s, 3), CHOOSE m \in ms : TRUE)

\* %Y: an optional sign, then digits (at most four when unsigned)
ScanYear(s0) ==
    LET s == Drop(s0, LeadingWhitespace(s0))
    IN  IF s # <<>> /\ Head(s) = "-"
        THEN LET r == ScanNumber(Tail(s), 1, Len(s))
             IN  IF r.st = "Done" THEN Done(r.rem, 0 - r.val) ELSE Error
        ELSE IF s # <<>> /\ Head(s) = "+"
        THEN ScanNumber(Tail(s), 1, Len(s))
        ELSE ScanNumber(s, 1, 4)

IsLeapYear(y) == y % 4 = 0 /\ (y % 100 # 0 \/ y % 400 = 0)

DaysInMonth(y, m) ==
    IF m = 2 THEN (IF IsLeapYear(y) THEN 29 ELSE 28)
    ELSE IF m \in {4, 6, 9, 11} THEN 30 ELSE 31

\* Some([y, m, d]) when the whole slice reads as day-month-year and names a
\* day of the calendar, None otherwise
ParseDate(slice) ==
    LET dd == ScanNumber(Drop(slice, LeadingWhitespace(slice)), 1, 2)
    IN  IF dd.st # "Done" \/ ~StartsWith(dd.rem, <<"-">>) THEN None
        ELSE LET mm == ScanShortMonth(Tail(dd.rem))
             IN  IF mm.st # "Done" \/ ~StartsWith(mm.rem, <<"-">>) THEN None
                 ELSE LET yy == ScanYear(Tail(mm.rem))
                      IN  IF yy.st # "Done" \/ yy.rem # <<>> THEN None
                          ELSE IF dd.val < 1 \/ dd.val > DaysInMonth(yy.val, mm.val)
                               THEN None
                               ELSE Some([y |-> yy.val, m |-> mm.val, d |-> dd.val])

\* width of the date token, in bytes
DateWidth == 11

\* fn date: input.get(..11) is None when fewer than 11 bytes remain or
\* byte 11 is inside a character
date(input) ==
    LET k == ByteBoundary(input, DateWidth)
    IN  IF k < 0 THEN Error
        ELSE LET dt == ParseDate(Take(input, k))
             IN  IF dt = None THEN Error ELSE Done(Drop(input, k), dt[1])

\* ------------------------------------------------------------------------
\* synom combinators
\* ------------------------------------------------------------------------

\* tag!(t)
tag(i, t) == IF StartsWith(i, t) THEN Done(Drop(i, Len(t)), t) ELSE Error

\* take_until!(substr): everything before the first occurrence of substr;
\* Error when substr does not occur
take_until(i, substr) ==
    LET k == FindFrom(i, substr)
    IN  IF k < 0 THEN Error ELSE Done(Drop(i, k), Take(i, k))

\* ------------------------------------------------------------------------
\* Field and line parsers
\* ------------------------------------------------------------------------

Dash == <<"-">>
TripleDash == <<"-","-","-">>

\* alt!( alphanumeric | tag!("---") | tag!("-") ) mapped to Option<String>
parse_isin(i) ==
    LET a  == alphanumeric(i)
        t3 == tag(i, TripleDash)
        t1 == tag(i, Dash)
        r  == IF a.st # "Error" THEN a ELSE IF t3.st = "Done" THEN t3 ELSE t1
    IN  IF r.st # "Done" THEN r
        ELSE Done(r.rem, IF r.val \in {Dash, TripleDash} THEN None ELSE Some(r.val))

\* take_until!(";") mapped to (name, plan, option)
parse_name(i) ==
    LET r == take_until(i, <<";">>)
    IN  IF r.st # "Done" THEN r
        ELSE LET name == Trim(r.val)
             IN  Done(r.rem,
                      [name   |-> name,
                       plan   |-> IF Contains(ToUppercase(name),
                                              <<"D","I","R","E","C","T">>)
                                  THEN "Direct" ELSE "Regular",
                       option |-> None])

\* NavRecordBuilder (derive_builder): every field starts unset
FieldOrder == <<"code", "isin", "isin_dr", "name", "nav", "date", "amc",
                "category", "scheme", "maturity", "plan", "option">>

NavRecordBuilderDefault == [f \in Range(FieldOrder) |-> None]

\* a setter of the builder
Set(rb, f, v) == [rb EXCEPT ![f] = Some(v)]

\* NavRecordBuilder::build: Err naming the first field never set, or the
\* NavRecord
Build(rb) ==
    LET unset == {i \in DOMAIN FieldOrder : rb[FieldOrder[i]] = None}
    IN  IF unset # {}
        THEN [kind  |-> "BuilderError",
              field |-> FieldOrder[CHOOSE i \in unset : \A j \in unset : i <= j]]
        ELSE [kind |-> "Ok", rec |-> [f \in Range(FieldOrder) |-> rb[f][1]]]

\* RecordBuilderOf with the two ISIN positions exchanged
RecordBuilderSwapped(code, isin, isin_dr, name_plan, nav, dt) ==
    Set(Set(Set(Set(Set(Set(Set(Set(NavRecordBuilderDefault,
        "code", code), "isin", isin_dr), "isin_dr", isin),
        "name", name_plan.name), "plan", name_plan.plan),
        "option", name_plan.option), "nav", nav), "date", dt)

\* RecordBuilderOf with the option setter left out
RecordBuilderNoOption(code, isin, isin_dr, name_plan, nav, dt) ==
    Set(Set(Set(Set(Set(Set(Set(NavRecordBuilderDefault,
        "code", code), "isin", isin), "isin_dr", isin_dr),
        "name", name_plan.name), "plan", name_plan.plan),
        "nav", nav), "date", dt)

\* the closing block of parse_record: the eight setters
RecordBuilderOf(code, isin, isin_dr, name_plan, nav, dt) ==
    Set(Set(Set(Set(Set(Set(Set(Set(NavRecordBuilderDefault,
        "code", code), "isin", isin), "isin_dr", isin_dr),
        "name", name_plan.name), "plan", name_plan.plan),
        "option", name_plan.option), "nav", nav), "date", dt)

\* do_parse!: the first step that does not return Done decides the result
\* the parsers of do_parse!, in order
RecordParsers ==
    <<"digit", "custom_seperator", "parse_isin", "custom_seperator", "parse_isin",
      "custom_seperator", "parse_name", "custom_seperator", "double",
      "custom_seperator", "date">>

\* parser k applied to i
RecordStep(k, i) ==
    CASE RecordParsers[k] = "digit" -> digit(i)
      [] RecordParsers[k] = "custom_seperator" -> custom_seperator(i)
      [] RecordParsers[k] = "parse_isin" -> parse_isin(i)
      [] RecordParsers[k] = "parse_name" -> parse_name(i)
      [] RecordParsers[k] = "double" -> double(i)
      [] RecordParsers[k] = "date" -> date(i)

RECURSIVE DoParse(_, _, _)
\* r is what parser k returned: its failure is the failure of do_parse!, its
\* value joins vals and the next parser runs on what it left
DoParseNext(k, r, vals) ==
    IF r.st # "Done" THEN r ELSE DoParse(k + 1, r.rem, Append(vals, r.val))

\* do_parse! from parser k on, at i, with the values of the parsers before
DoParse(k, i, vals) ==
    IF k > Len(RecordParsers)
    THEN Done(i, RecordBuilderOf(vals[1], vals[3], vals[5], vals[7], vals[9],
                                 vals[11]))
    ELSE DoParseNext(k, RecordStep(k, i), vals)

parse_record(i) == DoParse(1, i, <<>>)

\* MaturityOf with open-ended as the answer for every other prefix
MaturityOfDefaultOpen(prefix) ==
    LET muc == ToUppercase(Trim(prefix))
    IN  IF StartsWith(muc, <<"C","L","O","S","E">>) THEN Some("CloseEnded")
        ELSE Some("OpenEnded")

\* the closing block of parse_scheme: maturity from the text before "("
MaturityOf(prefix) ==
    LET muc == ToUppercase(Trim(prefix))
    IN  IF StartsWith(muc, <<"C","L","O","S","E">>) THEN Some("CloseEnded")
        ELSE IF StartsWith(muc, <<"O","P","E","N">>) THEN Some("OpenEnded")
        ELSE None

SchemeSep == <<" ", "-", " ">>

\* option!( terminated!( take_until!(" - "), tag!(" - ") ) )
SchemeGroup(i) ==
    LET r == take_until(i, SchemeSep)
    IN  IF r.st # "Done" THEN Done(i, None)
        ELSE Done(Drop(r.rem, Len(SchemeSep)), Some(r.val))

parse_scheme(i) ==
    LET r1 == take_until(i, <<"(">>)
        r2 == tag(r1.rem, <<"(">>)
        r3 == SchemeGroup(r2.rem)
        r4 == take_until(r3.rem, <<")">>)
    IN  IF r1.st # "Done" THEN r1
        ELSE IF r2.st # "Done" THEN r2
        ELSE IF r4.st # "Done" THEN r4
        ELSE Done(r4.rem, [maturity |-> MaturityOf(r1.val),
                           scheme   |-> r3.val,
                           category |-> r4.val])

\* line_type with the semicolon test made first
line_typeRecordFirst(buf) ==
    IF Contains(buf, <<";">>) THEN "Record"
    ELSE IF StartsWith(buf, <<"S","c","h","e","m","e">>) THEN "Header"
    ELSE IF Contains(buf, <<"E","n","d","e","d"," ","S","c","h","e","m","e">>)
         THEN "Scheme"
    ELSE IF Trim(buf) # <<>> THEN "Amc"
    ELSE "Blank"

\* NavRecordIterator::line_type
line_type(buf) ==
    IF StartsWith(buf, <<"S","c","h","e","m","e">>) THEN "Header"
    ELSE IF Contains(buf, <<";">>) THEN "Record"
    ELSE IF Contains(buf, <<"E","n","d","e","d"," ","S","c","h","e","m","e">>)
         THEN "Scheme"
    ELSE IF Trim(buf) # <<>> THEN "Amc"
    ELSE "Blank"

\* ------------------------------------------------------------------------
\* The line source
\* ------------------------------------------------------------------------
\* What BufReader::read_line can return for one call: a line (its text
\* without the newline, which Line appends) or a read failure.  The model
\* draws the lines of a source from this catalogue.

\* Scheme Code;ISIN
HeaderLine ==
    <<"S","c","h","e","m","e"," ","C","o","d","e",";","I","S","I","N">>

\* (one space)
BlankLine ==
    <<" ">>

\*  Axis MF
AmcLineA ==
    <<" ","A","x","i","s"," ","M","F">>

\* HDFC
AmcLineB ==
    <<"H","D","F","C">>

\* Open Ended Scheme(Debt - Gilt)
SchemeLineA ==
    <<"O","p","e","n"," ","E","n","d","e","d"," ","S","c","h","e","m","e",
      "(","D","e","b","t"," ","-"," ","G","i","l","t",")">>

\* Close Ended Scheme(ELSS)
SchemeLineB ==
    <<"C","l","o","s","e"," ","E","n","d","e","d"," ","S","c","h","e","m",
      "e","(","E","L","S","S",")">>

\* Open Ended Scheme(Gilt
SchemeLineBad ==
    <<"O","p","e","n"," ","E","n","d","e","d"," ","S","c","h","e","m","e",
      "(","G","i","l","t">>

\* Interval Ended Scheme(Income)
SchemeLineOther ==
    <<"I","n","t","e","r","v","a","l"," ","E","n","d","e","d"," ","S","c",
      "h","e","m","e","(","I","n","c","o","m","e",")">>

\* cLOSE Ended Scheme (Tax)
SchemeLineMixed ==
    <<"c","L","O","S","E"," ","E","n","d","e","d"," ","S","c","h","e","m",
      "e"," ","(","T","a","x",")">>

\* 7;IN1;-;Fund Direct;15.50;01-Jan-2020
RecordLineA ==
    <<"7",";","I","N","1",";","-",";","F","u","n","d"," ","D","i","r","e",
      "c","t",";","1","5",".","5","0",";","0","1","-","J","a","n","-","2",
      "0","2","0">>

\* 042;---;IN2;Gilt;9007199254740993;29-Feb-2020 (the NAV is 2^53 + 1, which
\* no f64 holds)
RecordLineB ==
    <<"0","4","2",";","-","-","-",";","I","N","2",";","G","i","l","t",";",
      "9","0","0","7","1","9","9","2","5","4","7","4","0","9","9","3",";",
      "2","9","-","F","e","b","-","2","0","2","0">>

\* 7;IN1;-;Fund;15.5;01-Jan-20
RecordLineShort ==
    <<"7",";","I","N","1",";","-",";","F","u","n","d",";","1","5",".","5",
      ";","0","1","-","J","a","n","-","2","0">>

\* 4294967296;-;-;F;1;01-Jan-2020
RecordLineBig ==
    <<"4","2","9","4","9","6","7","2","9","6",";","-",";","-",";","F",";",
      "1",";","0","1","-","J","a","n","-","2","0","2","0">>

\* 7;-;-;F;.;01-Jan-2020
RecordLineDot ==
    <<"7",";","-",";","-",";","F",";",".",";","0","1","-","J","a","n","-",
      "2","0","2","0">>

\* 7;é;-;F;1;01-Jan-2020
RecordLineWide ==
    <<"7",";","é",";","-",";","F",";","1",";","0","1","-","J","a","n","-",
      "2","0","2","0">>

Line(text) == [err |-> FALSE, text |-> text \o <<"\n">>]
\* a read that fails after delivering 7;IN1 (read_line leaves in buf what it
\* had appended before the failure)
ReadFailure == [err |-> TRUE, text |-> <<"7",";","I","N","1">>]
\* a read that fails before delivering anything
ReadFailureAtOnce == [err |-> TRUE, text |-> <<>>]

Source ==
    {Line(HeaderLine), Line(BlankLine), Line(AmcLineA), Line(AmcLineB),
     Line(SchemeLineA), Line(SchemeLineB), Line(SchemeLineBad),
     Line(RecordLineA), Line(RecordLineB), Line(RecordLineShort),
     Line(RecordLineBig), Line(RecordLineDot), Line(RecordLineWide),
     ReadFailure}

\* further outcomes, for short sources
SourceMore == {Line(SchemeLineOther), Line(SchemeLineMixed), ReadFailureAtOnce}

\* longest source, in read outcomes
MaxLines == 4
\* most calls of next() on one session that return None
MaxEnds == 2

\* The parsers are pure functions of the line: their results on the lines
\* of the catalogue, evaluated once.
Texts == {o.text : o \in Source \cup SourceMore}
LineTypeOf == [t \in Texts |-> line_type(t)]
RecordParseOf == [t \in Texts |-> parse_record(Trim(t))]
SchemeParseOf == [t \in Texts |-> parse_scheme(Trim(t))]
TrimOf == [t \in Texts |-> Trim(t)]

\* ------------------------------------------------------------------------
\* Sessions
\* ------------------------------------------------------------------------
\* source : the outcomes of the read_line calls revealed so far, in order
\*          (every session opened on the source reads this same sequence)
\* eof    : the source is known to end after Len(source) outcomes
\* iter   : the NavRecordIterator of each session, in order of creation;
\*          reader is the number of read_line calls that returned a line
\*          or a failure
\* call   : the activation of next() on each session: pc, and the local
\*          variable item
\* out    : what the completed calls of next() on each session returned,
\*          each with the reader position at the return
VARIABLES source, eof, iter, call, out

\* The parser functions applied on their own, outside a session:
\* given   : the &str handed to the function
\* applied : None, or Some of the function's name and what it returned
VARIABLES given, applied

vars == <<source, eof, iter, call, out, given, applied>>

\* NavRecordIteratorNew with the context kept in state shared by the
\* sessions: a new session starts from the context of the one before it
NavRecordIteratorNewShared ==
    [reader   |-> 0,
     amc      |-> IF iter = <<>> THEN <<>> ELSE iter[Len(iter)].amc,
     category |-> IF iter = <<>> THEN <<>> ELSE iter[Len(iter)].category,
     scheme   |-> IF iter = <<>> THEN None ELSE iter[Len(iter)].scheme,
     buf      |-> <<>>,
     bailout  |-> FALSE,
     maturity |-> IF iter = <<>> THEN None ELSE iter[Len(iter)].maturity]

\* NavRecordIterator::new
NavRecordIteratorNew ==
    [reader   |-> 0,
     amc      |-> <<>>,
     category |-> <<>>,
     scheme   |-> None,
     buf      |-> <<>>,
     bailout  |-> FALSE,
     maturity |-> None]

SynomError(text) == [kind |-> "SynomError", text |-> text]
IoError == [kind |-> "IoError"]

\* RecordItem with the error carrying the raw buffer, as the Scheme arm does
RecordItemRaw(it) ==
    LET r == RecordParseOf[it.buf]
    IN  IF r.st = "Done"
        THEN Build(Set(Set(Set(Set(r.val, "maturity", it.maturity),
                   "amc", it.amc), "scheme", it.scheme), "category", it.category))
        ELSE SynomError(it.buf)

\* RecordItem with the amc setter left out
RecordItemNoAmc(it) ==
    LET r == RecordParseOf[it.buf]
    IN  IF r.st = "Done"
        THEN Build(Set(Set(Set(r.val, "maturity", it.maturity),
                   "scheme", it.scheme), "category", it.category))
        ELSE SynomError(TrimOf[it.buf])

\* the Record arm of next(): the item it yields (never reached when
\* parse_record panics)
RecordItem(it) ==
    LET r == RecordParseOf[it.buf]
    IN  IF r.st = "Done"
        THEN Build(Set(Set(Set(Set(r.val, "maturity", it.maturity),
                   "amc", it.amc), "scheme", it.scheme), "category", it.category))
        ELSE SynomError(TrimOf[it.buf])

\* SchemeUpdate with the assignment of category left out
SchemeUpdatePartial(it, v) ==
    [it EXCEPT !.maturity = v.maturity, !.scheme = v.scheme]

\* the Scheme arm of next(), Done case: the three assignments
SchemeUpdate(it, v) ==
    [it EXCEPT !.maturity = v.maturity, !.scheme = v.scheme, !.category = v.category]

\* SchemeFail with the assignment of bailout left out
SchemeFailNoBailout(it) == it

\* the Scheme arm of next(), Error case: bailout = true
SchemeFail(it) == [it EXCEPT !.bailout = TRUE]

\* AmcUpdate without the trim
AmcUpdateRaw(it) == [it EXCEPT !.amc = it.buf]

\* AmcUpdate that also forgets the scheme-group label
AmcUpdateClearing(it) == [it EXCEPT !.amc = TrimOf[it.buf], !.scheme = None]

\* the Amc arm of next()
AmcUpdate(it) == [it EXCEPT !.amc = TrimOf[it.buf]]

Init ==
    /\ source = <<>>
    /\ eof = FALSE
    /\ iter = <<>>
    /\ call = <<>>
    /\ out = <<>>
    /\ given = <<>>
    /\ applied = None

\* nav_from_file / nav_from_url: a new session on the source
Open(limit) ==
    /\ Len(iter) < limit
    /\ \A j \in DOMAIN call : call[j].pc = "idle"
    /\ iter' = Append(iter, NavRecordIteratorNew)
    /\ call' = Append(call, [pc |-> "idle", item |-> None])
    /\ out' = Append(out, <<>>)
    /\ UNCHANGED <<source, eof>>
    /\ UNCHANGED <<given, applied>>

\* the caller pulls: next() is entered, item = None
Call(i) ==
    /\ i \in DOMAIN iter
    /\ call[i].pc = "idle"
    /\ Cardinality({k \in DOMAIN out[i] : out[i][k].ret = None}) < MaxEnds
    /\ call' = [call EXCEPT ![i] = [pc |-> "loop", item |-> None]]
    /\ UNCHANGED <<source, eof, iter, out>>
    /\ UNCHANGED <<given, applied>>

\* Looping without the test of item
LoopingIgnoringItem(i) ==
    /\ i \in DOMAIN iter
    /\ call[i].pc = "loop"
    /\ ~iter[i].bailout

\* the loop condition of next()
Looping(i) ==
    /\ i \in DOMAIN iter
    /\ call[i].pc = "loop"
    /\ ~iter[i].bailout
    /\ call[i].item = None

\* read_line returns outcome o to session i: the next outcome of the
\* source, revealed by this read when no session has read that far
Reads(i, o) ==
    /\ IF iter[i].reader < Len(source)
       THEN o = source[iter[i].reader + 1] /\ source' = source
       ELSE ~eof /\ Len(source) < MaxLines /\ source' = Append(source, o)
    /\ eof' = eof

\* after buf.clear() and read_line
AfterRead(it, o) == [it EXCEPT !.reader = @ + 1, !.buf = o.text]

\* AfterReadErr with a failed read treated like a failed Scheme line
AfterReadErrBailout(it, o) == [AfterRead(it, o) EXCEPT !.bailout = TRUE]

\* the Err arm of next(): the session after the failed read o (buf was
\* cleared before the read and holds what the read delivered before it
\* failed; the arm assigns nothing else)
AfterReadErr(it, o) == AfterRead(it, o)

\* ReadEof without the break: the loop goes on
ReadEofNoBreak(i) ==
    /\ Looping(i)
    /\ iter[i].reader = Len(source)
    /\ eof' = TRUE
    /\ iter' = [iter EXCEPT ![i].buf = <<>>]
    /\ UNCHANGED <<source, call, out>>
    /\ UNCHANGED <<given, applied>>

\* read_line returns Ok(0): break
ReadEof(i) ==
    /\ Looping(i)
    /\ iter[i].reader = Len(source)
    /\ eof' = TRUE
    /\ iter' = [iter EXCEPT ![i].buf = <<>>]
    /\ call' = [call EXCEPT ![i].pc = "ret"]
    /\ UNCHANGED <<source, out>>
    /\ UNCHANGED <<given, applied>>

\* read_line returns Err(e): item = Some(Err(e.into())); break
ReadErrOf(i, o) ==
    /\ Looping(i)
    /\ o.err
    /\ Reads(i, o)
    /\ iter' = [iter EXCEPT ![i] = AfterReadErr(@, o)]
    /\ call' = [call EXCEPT ![i] = [pc |-> "ret", item |-> Some(IoError)]]
    /\ UNCHANGED out
    /\ UNCHANGED <<given, applied>>

\* a failed read
ReadErr(i) == \E o \in Source : ReadErrOf(i, o)

\* the read that fails at once
ReadErrMore(i) == \E o \in SourceMore : ReadErrOf(i, o)

\* a line of type Record
LineRecord(i) ==
    \E o \in Source :
        /\ Looping(i)
        /\ ~o.err /\ LineTypeOf[o.text] = "Record"
        /\ Reads(i, o)
        /\ LET it == AfterRead(iter[i], o)
           IN  /\ iter' = [iter EXCEPT ![i] = it]
               /\ call' = [call EXCEPT ![i] =
                     IF RecordParseOf[it.buf].st = "Panic"
                     THEN [pc |-> "panic", item |-> None]
                     ELSE [pc |-> "loop", item |-> Some(RecordItem(it))]]
        /\ UNCHANGED out
        /\ UNCHANGED <<given, applied>>

\* the line o, of type Scheme, is read
LineSchemeOf(i, o) ==
    /\ Looping(i)
    /\ ~o.err /\ LineTypeOf[o.text] = "Scheme"
    /\ Reads(i, o)
    /\ LET it == AfterRead(iter[i], o)
           r  == SchemeParseOf[it.buf]
       IN  IF r.st = "Done"
           THEN /\ iter' = [iter EXCEPT ![i] = SchemeUpdate(it, r.val)]
                /\ call' = call
           ELSE /\ iter' = [iter EXCEPT ![i] = SchemeFail(it)]
                /\ call' = [call EXCEPT ![i].item = Some(SynomError(it.buf))]
    /\ UNCHANGED out
    /\ UNCHANGED <<given, applied>>

\* a line of type Scheme
LineScheme(i) == \E o \in Source : LineSchemeOf(i, o)

\* one of the further section headers
LineSchemeMore(i) == \E o \in SourceMore : LineSchemeOf(i, o)

\* a line of type Amc
LineAmc(i) ==
    \E o \in Source :
        /\ Looping(i)
        /\ ~o.err /\ LineTypeOf[o.text] = "Amc"
        /\ Reads(i, o)
        /\ iter' = [iter EXCEPT ![i] = AmcUpdate(AfterRead(@, o))]
        /\ UNCHANGED <<call, out>>
        /\ UNCHANGED <<given, applied>>

\* a line of type Blank or Header
LineSkip(i) ==
    \E o \in Source :
        /\ Looping(i)
        /\ ~o.err /\ LineTypeOf[o.text] \in {"Blank", "Header"}
        /\ Reads(i, o)
        /\ iter' = [iter EXCEPT ![i] = AfterRead(@, o)]
        /\ UNCHANGED <<call, out>>
        /\ UNCHANGED <<given, applied>>

\* next() returns item: after a break, or when the loop condition fails
Return(i) ==
    /\ i \in DOMAIN iter
    /\ \/ call[i].pc = "ret"
       \/ call[i].pc = "loop" /\ ~Looping(i)
    /\ out' = [out EXCEPT ![i] =
                  Append(@, [ret |-> call[i].item, at |-> iter[i].reader])]
    /\ call' = [call EXCEPT ![i] = [pc |-> "idle", item |-> None]]
    /\ UNCHANGED <<source, eof, iter>>
    /\ UNCHANGED <<given, applied>>

\* one session
Next ==
    \/ Open(1)
    \/ Call(1)
    \/ ReadEof(1)
    \/ ReadErr(1)
    \/ LineRecord(1)
    \/ LineScheme(1)
    \/ LineAmc(1)
    \/ LineSkip(1)
    \/ Return(1)

Spec == Init /\ [][Next]_vars

\* Two sessions on the same source.  The second may be opened at any time
\* between two pulls of the first; from then on the caller pulls them in
\* lock-step: the later session pulls while it has returned fewer times
\* than the earlier one, the earlier one when the later has caught up.
Turn(i) ==
    /\ i \in DOMAIN iter
    /\ \A j \in DOMAIN iter \ {i} :
          /\ call[j].pc \in {"idle", "panic"}
          /\ j < i => (Len(out[i]) < Len(out[j]) \/ call[j].pc = "panic")
          /\ j > i => Len(out[i]) <= Len(out[j])

\* longest source when two sessions read it
TwoMaxLines == 3

Short == Len(source') <= TwoMaxLines

NextTwo ==
    \/ Open(2)
    \/ \E i \in {1, 2} :
          \/ Turn(i) /\ Call(i)
          \/ ReadEof(i)
          \/ ReadErr(i) /\ Short
          \/ LineRecord(i) /\ Short
          \/ LineScheme(i) /\ Short
          \/ LineAmc(i) /\ Short
          \/ LineSkip(i) /\ Short
          \/ Return(i)

SpecTwo == Init /\ [][NextTwo]_vars

\* One session on a short source that may also hold the further outcomes.
WideMaxLines == 3

Brief == Len(source') <= WideMaxLines

\* the steps of a call of next() in progress
Running ==
    \/ ReadEof(1)
    \/ ReadErr(1) /\ Brief
    \/ ReadErrMore(1) /\ Brief
    \/ LineRecord(1) /\ Brief
    \/ LineScheme(1) /\ Brief
    \/ LineSchemeMore(1) /\ Brief
    \/ LineAmc(1) /\ Brief
    \/ LineSkip(1) /\ Brief
    \/ Return(1)

NextWide ==
    \/ Open(1)
    \/ Call(1)
    \/ Running

SpecWide == Init /\ [][NextWide]_vars

\* next() is sequential code: once called it keeps taking steps until it
\* returns (or aborts); the caller is free to stop pulling.
SpecFair == Init /\ [][NextWide]_vars /\ WF_vars(Running)

\* ------------------------------------------------------------------------
\* The parser functions on their own
\* ------------------------------------------------------------------------
\* The texts a function is applied to: every string of at most MaxLen
\* characters of FieldChars, and lines put together from parts.

FieldChars == {"a", "1", "-", ";", ".", "é"}

\* longest string of FieldChars
MaxLen == 4

RECURSIVE Strings(_)
Strings(n) ==
    IF n = 0 THEN {<<>>}
    ELSE LET S == Strings(n - 1)
         IN  S \cup {Append(s, c) : s \in {x \in S : Len(x) = n - 1}, c \in FieldChars}

\* u32::MAX + 1 = 4294967296
U32OverDigits == <<"4","2","9","4","9","6","7","2","9","6">>

CodeTokens == {<<"7">>, <<"0","0","7">>, U32MaxDigits, U32OverDigits}

IsinTokens ==
    {<<"I","N","1">>, Dash, TripleDash, <<"-","-">>, <<"*">>, <<"é","1">>, <<"1","é">>}

NavTokens ==
    {<<"1">>, <<"1",".","5","0">>, <<"1",".">>, <<".","5">>, <<".">>,
     <<"1",".","2",".","3">>, <<".",".","5">>}

\* decimals that no f64 holds: 9007199254740993 (2^53 + 1),
\* 0.10000000000000001, 1.00000000000000000001 and 0.30000000000000000001,
\* and 123456789012345.678 (the nearest f64 prints with fewer digits)
LongNavTokens ==
    {<<"9","0","0","7","1","9","9","2","5","4","7","4","0","9","9","3">>,
     <<"0",".","1","0","0","0","0","0","0","0","0","0","0","0","0","0","0","0","1">>,
     <<"1",".","0","0","0","0","0","0","0","0","0","0","0","0","0","0","0","0","0","0","0","1">>,
     <<"0",".","3","0","0","0","0","0","0","0","0","0","0","0","0","0","0","0","0","0","0","1">>,
     <<"1","2","3","4","5","6","7","8","9","0","1","2","3","4","5",".","6","7","8">>}

\* ;01-Jan-2020
DateTail == <<";","0","1","-","J","a","n","-","2","0","2","0">>

\* code;isin;isin_dr;F;nav;01-Jan-2020
DataLine(code, isin, isin_dr, nav) ==
    code \o <<";">> \o isin \o <<";">> \o isin_dr \o <<";","F",";">> \o nav \o DateTail

DataLines ==
    {DataLine(c, <<"I","N","1">>, Dash, <<"1">>) : c \in CodeTokens}
        \cup {DataLine(<<"7">>, <<"I","N","1">>, Dash, n) : n \in LongNavTokens}
        \cup {DataLine(<<"7">>, a, b, n) : a \in IsinTokens, b \in IsinTokens,
                                           n \in NavTokens}

\* section headers: prefix ( inner close tail
SchemePrefixes ==
    {<<"O","p","e","n"," ","E","n","d","e","d">>, <<" ","c","l","o","s","e","d">>,
     <<"R","e","o","p","e","n">>, <<>>}
SchemeInners ==
    {<<"D"," ","-"," ","G">>, <<"E">>, <<"A"," ","-"," ","B"," ","-"," ","C">>,
     <<"E","-","F">>, <<>>}
SchemeTails == {<<>>, <<" ","-"," ","X">>, <<" ","-"," ","X",")">>}

SchemeLines ==
    {p \o <<"(">> \o n \o c \o t :
        p \in SchemePrefixes, n \in SchemeInners, c \in {<<")">>, <<>>},
        t \in SchemeTails}

\* lines for the classifier: head ; marker rest newline
EndedScheme == <<"E","n","d","e","d"," ","S","c","h","e","m","e">>
SchemeWord == <<"S","c","h","e","m","e">>

ClassLines ==
    {h \o m \o k \o r \o nl :
        h \in {SchemeWord, <<" ">> \o SchemeWord, <<"O","p","e","n"," ">>, <<>>},
        m \in {<<";">>, <<>>},
        k \in {EndedScheme, <<>>},
        r \in {<<>>, <<" ">>, <<"x">>, <<NBSP>>},
        nl \in {<<>>, <<"\n">>, <<"\r","\n">>}}

Inputs == Strings(MaxLen) \cup DataLines \cup SchemeLines \cup ClassLines

Result(f, r) == Some([fn |-> f, ret |-> r])

InitLex ==
    /\ given \in Inputs
    /\ applied = None
    /\ source = <<>>
    /\ eof = FALSE
    /\ iter = <<>>
    /\ call = <<>>
    /\ out = <<>>

Apply(f, r) ==
    /\ applied = None
    /\ applied' = Result(f, r)
    /\ UNCHANGED <<given, source, eof, iter, call, out>>

ApplyDigit == Apply("digit", digit(given))
ApplyDouble == Apply("double", double(given))
ApplyIsin == Apply("parse_isin", parse_isin(given))
ApplyRecord == Apply("parse_record", parse_record(given))
ApplyScheme == Apply("parse_scheme", parse_scheme(given))
ApplyLineType == Apply("line_type", line_type(given))

NextLex ==
    \/ ApplyDigit
    \/ ApplyDouble
    \/ ApplyIsin
    \/ ApplyRecord
    \/ ApplyScheme
    \/ ApplyLineType

SpecLex == InitLex /\ [][NextLex]_vars

\* ------------------------------------------------------------------------
\* Reference definitions for the properties
\* ------------------------------------------------------------------------

Sessions == DOMAIN iter

IsLine(o, ty) == ~o.err /\ LineTypeOf[o.text] = ty

FailingScheme(o) == IsLine(o, "Scheme") /\ SchemeParseOf[o.text].st = "Error"
ParsedScheme(o) == IsLine(o, "Scheme") /\ SchemeParseOf[o.text].st = "Done"
RecordError(o) == IsLine(o, "Record") /\ RecordParseOf[o.text].st = "Error"
RecordDone(o) == IsLine(o, "Record") /\ RecordParseOf[o.text].st = "Done"
RecordPanic(o) == IsLine(o, "Record") /\ RecordParseOf[o.text].st = "Panic"

Largest(S) == CHOOSE x \in S : \A y \in S : y <= x
Smallest(S) == CHOOSE x \in S : \A y \in S : x <= y

\* the returns of session i made while its reader stood at position p
ReturnsAt(i, p) == {k \in DOMAIN out[i] : out[i][k].at = p}

\* the call of next() that read outcome p has returned
Returned(i, p) == iter[i].reader > p \/ call[i].pc = "idle"

\* The context a session holds after the first n outcomes of the source,
\* read off the source: the latest Amc line, the latest Scheme line that
\* parses.
AmcAt(n) ==
    LET ps == {p \in 1..n : IsLine(source[p], "Amc")}
    IN  IF ps = {} THEN <<>> ELSE TrimOf[source[Largest(ps)].text]

SchemeAt(n) ==
    LET ps == {p \in 1..n : ParsedScheme(source[p])}
    IN  IF ps = {} THEN [maturity |-> None, scheme |-> None, category |-> <<>>]
        ELSE SchemeParseOf[source[Largest(ps)].text].val

SchemeContext(it) ==
    [maturity |-> it.maturity, scheme |-> it.scheme, category |-> it.category]

\* the pull that read outcome p yields item and no other return is made at
\* p except end-of-sequence
YieldsOnce(i, p, item) ==
    /\ Returned(i, p) => ReturnsAt(i, p) # {}
    /\ \A k \in ReturnsAt(i, p) :
          out[i][k].ret = IF k = Smallest(ReturnsAt(i, p)) THEN Some(item) ELSE None

\* ------------------------------------------------------------------------
\* Properties
\* ------------------------------------------------------------------------

\* C1: once a line classified as Scheme fails the section-header parser, the
\* pull that read it yields exactly one error item, bailout is set and stays
\* set, the session never reads again, and every later pull yields no item.
C1_SchemeFailureIsTerminal ==
    \A i \in Sessions : \A p \in 1..iter[i].reader :
        FailingScheme(source[p]) =>
            /\ iter[i].bailout
            /\ iter[i].reader = p
            /\ YieldsOnce(i, p, SynomError(source[p].text))

\* a failing Scheme line was read, its error was yielded and two later
\* pulls returned end-of-sequence while the source is not known to have ended
C1_Witness ==
    \E i \in Sessions : \E p \in 1..iter[i].reader :
        /\ FailingScheme(source[p])
        /\ ~eof
        /\ Cardinality(ReturnsAt(i, p)) = 3

\* C2: a Record line that fails the data-line parser yields exactly one
\* parse error carrying the trimmed line, leaves bailout unset and the
\* context as it was, and the next pull reads on: a valid Record line that
\* follows yields a Record with the context from before the failing line.
C2_RecordFailureIsLocal ==
    \A i \in Sessions : \A p \in 1..iter[i].reader :
        RecordError(source[p]) =>
            /\ YieldsOnce(i, p, SynomError(TrimOf[source[p].text]))
            /\ iter[i].reader = p =>
                  /\ ~iter[i].bailout
                  /\ iter[i].amc = AmcAt(p - 1)
                  /\ SchemeContext(iter[i]) = SchemeAt(p - 1)
            /\ iter[i].reader > p => Cardinality(ReturnsAt(i, p)) = 1
            /\ \A k \in ReturnsAt(i, p + 1) :
                  (RecordDone(source[p + 1]) /\ out[i][k].ret # None) =>
                      /\ out[i][k].ret[1].kind = "Ok"
                      /\ out[i][k].ret[1].rec.amc = AmcAt(p - 1)
                      /\ out[i][k].ret[1].rec.category = SchemeAt(p - 1).category
                      /\ out[i][k].ret[1].rec.scheme = SchemeAt(p - 1).scheme
                      /\ out[i][k].ret[1].rec.maturity = SchemeAt(p - 1).maturity

\* a failing Record line read after an Amc line and a Scheme line, and the
\* Record of the valid Record line after it returned
C2_Witness ==
    \E i \in Sessions : \E p \in 3..iter[i].reader - 1 :
        /\ RecordError(source[p])
        /\ AmcAt(p - 1) # <<>>
        /\ SchemeAt(p - 1).category # <<>>
        /\ RecordDone(source[p + 1])
        /\ \E k \in ReturnsAt(i, p + 1) : out[i][k].ret # None

\* C3 as stated: after the pull that yields an I/O error item the session
\* is in the bailout state and no later pull yields an item.
C3_ReadFailureIsTerminal ==
    \A i \in Sessions : \A k \in DOMAIN out[i] :
        out[i][k].ret = Some(IoError) =>
            /\ iter[i].bailout
            /\ \A j \in DOMAIN out[i] : j > k => out[i][j].ret = None

\* C3, amended: a failed read yields exactly one I/O error item for that
\* pull and leaves bailout unset and the context as it was; the next pull
\* reads the source again.
C3_ReadFailureIsLocal ==
    \A i \in Sessions : \A p \in 1..iter[i].reader :
        source[p].err =>
            /\ YieldsOnce(i, p, IoError)
            /\ iter[i].reader = p =>
                  /\ ~iter[i].bailout
                  /\ iter[i].amc = AmcAt(p - 1)
                  /\ SchemeContext(iter[i]) = SchemeAt(p - 1)
            /\ iter[i].reader > p => Cardinality(ReturnsAt(i, p)) = 1

\* a failed read, its I/O error yielded, and the Record of a later line
\* yielded after it
C3_Witness ==
    \E i \in Sessions : \E k \in DOMAIN out[i] :
        /\ out[i][k].ret = Some(IoError)
        /\ \E j \in DOMAIN out[i] :
              j > k /\ out[i][j].ret # None /\ out[i][j].ret[1].kind = "Ok"

\* the Records a session has yielded: the returns that carry Ok
OkReturns(i) ==
    {k \in DOMAIN out[i] : out[i][k].ret # None /\ out[i][k].ret[1].kind = "Ok"}

RecordOf(i, k) == out[i][k].ret[1].rec

\* C4: every pull completes with a Record, an error value or
\* end-of-sequence; no pull aborts.
C4_NoPullAborts ==
    \A i \in Sessions : call[i].pc # "panic"

\* C5: the fund-family context is the trimmed text of the latest Amc line
\* read, whatever Blank, Header, Scheme and Record lines were read after it,
\* and every Record carries the fund-family name of the latest Amc line
\* before its own line.
C5_AmcContextPersists ==
    \A i \in Sessions :
        /\ iter[i].amc = AmcAt(iter[i].reader)
        /\ \A k \in OkReturns(i) : RecordOf(i, k).amc = AmcAt(out[i][k].at)

\* two Records of one session, the first under one Amc line and the second
\* under a later, different one
C5_Witness ==
    \E i \in Sessions : \E k, j \in OkReturns(i) :
        /\ k < j
        /\ RecordOf(i, k).amc # <<>>
        /\ RecordOf(i, j).amc # <<>>
        /\ RecordOf(i, k).amc # RecordOf(i, j).amc

\* C6: maturity, scheme-group and category always come from one Scheme
\* line, the latest that parsed (or are all initial); a Scheme line that
\* fails to parse changes none of them; every Record carries the triple of
\* the latest parsed Scheme line before its own line.
C6_SchemeContextAtomic ==
    \A i \in Sessions :
        /\ SchemeContext(iter[i]) = SchemeAt(iter[i].reader)
        /\ \A p \in 1..iter[i].reader :
              FailingScheme(source[p]) => SchemeContext(iter[i]) = SchemeAt(p - 1)
        /\ \A k \in OkReturns(i) :
              SchemeContext(RecordOf(i, k)) = SchemeAt(out[i][k].at - 1)

\* a Record read right after the second of two different Scheme lines that
\* both parsed
C6_Witness ==
    \E i \in Sessions : \E k \in OkReturns(i) :
        \E p \in 1..out[i][k].at :
            /\ ParsedScheme(source[p])
            /\ out[i][k].at > 2
            /\ ParsedScheme(source[out[i][k].at - 1])
            /\ p < out[i][k].at - 1
            /\ source[p] # source[out[i][k].at - 1]

\* A well-formed data line, read off its text: six fields between
\* semicolons, code;isin;isin_dr;name;nav;date.
RECURSIVE SplitAt(_, _)
SplitAt(s, sep) ==
    LET k == FindFrom(s, <<sep>>)
    IN  IF k < 0 THEN <<s>> ELSE <<Take(s, k)>> \o SplitAt(Drop(s, k + 1), sep)

AsciiAlphanumerics ==
    Range(LowerLetters) \cup Range(UpperLetters) \cup Range(DigitChars)

AllIn(s, S) == \A j \in DOMAIN s : s[j] \in S

IsinField(f) ==
    f \in {Dash, TripleDash} \/ (f # <<>> /\ AllIn(f, AsciiAlphanumerics))

DecimalField(f) ==
    /\ AllIn(f, AsciiDigits \cup {"."})
    /\ Cardinality({j \in DOMAIN f : f[j] = "."}) <= 1
    /\ \E j \in DOMAIN f : f[j] \in AsciiDigits

DateField(f) ==
    /\ Len(f) = DateWidth
    /\ AllIn(SubSeq(f, 1, 2) \o SubSeq(f, 8, 11), AsciiDigits)
    /\ f[3] = "-" /\ f[7] = "-"
    /\ ParseDate(f) # None

WellFormedLine(l) ==
    LET f == SplitAt(l, ";")
    IN  /\ Len(f) = 6
        /\ f[1] # <<>> /\ AllIn(f[1], AsciiDigits) /\ FitsU32(f[1])
        /\ IsinField(f[2])
        /\ IsinField(f[3])
        /\ Trim(f[4]) # <<>>
        /\ DecimalField(f[5])
        /\ DateField(f[6])

IsinValue(f) == IF f \in {Dash, TripleDash} THEN None ELSE Some(f)

\* the fields a well-formed line l stands for, in the order of the line
DecodedFields(l) ==
    LET f == SplitAt(l, ";")
    IN  [code     |-> StripLeadingZeros(f[1]),
         isin     |-> IsinValue(f[2]),
         isin_dr  |-> IsinValue(f[3]),
         name     |-> Trim(f[4]),
         nav      |-> ParseF64(f[5])[1],
         date     |-> ParseDate(f[6])[1],
         plan     |-> IF Contains(ToUppercase(Trim(f[4])), <<"D","I","R","E","C","T">>)
                      THEN "Direct" ELSE "Regular",
         option   |-> None]

WellFormedOf == [t \in Texts |-> WellFormedLine(Trim(t))]
DecodedOf ==
    [t \in {x \in Texts : WellFormedOf[x]} |-> DecodedFields(Trim(t))]

\* the Record a well-formed line with text t stands for under the context
\* (amc, sc)
DecodedRecord(t, amc, sc) ==
    [f \in Range(FieldOrder) |->
        CASE f = "amc" -> amc
          [] f = "category" -> sc.category
          [] f = "scheme" -> sc.scheme
          [] f = "maturity" -> sc.maturity
          [] OTHER -> DecodedOf[t][f]]

\* C7: a well-formed data line read at any point of a session yields
\* exactly one Record: code, isin, isin_dr, name, nav and date are the
\* decoded fields in that order, plan is derived from the name, and amc,
\* category, scheme and maturity are the context active when it was read.
C7_WellFormedLineYieldsRecord ==
    \A i \in Sessions : \A p \in 1..iter[i].reader :
        (~source[p].err /\ WellFormedOf[source[p].text]) =>
            YieldsOnce(i, p,
                [kind |-> "Ok",
                 rec  |-> DecodedRecord(source[p].text, AmcAt(p - 1), SchemeAt(p - 1))])

\* the Record of a well-formed line with a present and an absent ISIN,
\* read under an Amc line and a Scheme line, was yielded
C7_Witness ==
    \E i \in Sessions : \E k \in OkReturns(i) :
        /\ WellFormedOf[source[out[i][k].at].text]
        /\ RecordOf(i, k).amc # <<>>
        /\ RecordOf(i, k).category # <<>>
        /\ RecordOf(i, k).isin # None
        /\ RecordOf(i, k).isin_dr = None
        /\ RecordOf(i, k).plan = "Direct"

AmcLinesBefore(n) == {p \in 1..n : IsLine(source[p], "Amc")}
SchemeLinesBefore(n) == {p \in 1..n : ParsedScheme(source[p])}

\* C8 as stated: every Record emitted has a non-empty fund-family name and
\* category supplied by an Amc line and a Scheme line read earlier; a Record
\* line read before the first Amc line or the first Scheme line yields a
\* build error instead of a Record.
C8_RecordsHaveSuppliedContext ==
    \A i \in Sessions : \A k \in OkReturns(i) :
        /\ RecordOf(i, k).amc # <<>>
        /\ RecordOf(i, k).category # <<>>
        /\ AmcLinesBefore(out[i][k].at) # {}
        /\ SchemeLinesBefore(out[i][k].at) # {}

\* C8, amended: every Record emitted has every field set, the fund-family
\* name and the category being whatever the context holds: empty (and
\* scheme-group and maturity absent) when no Amc or Scheme line has been
\* read yet.  Every Record line that passes the data-line parser yields a
\* Record, at any position of the given; no build error is ever yielded.
C8_RecordsCarryCurrentContext ==
    \A i \in Sessions :
        /\ \A k \in DOMAIN out[i] :
              out[i][k].ret # None => out[i][k].ret[1].kind # "BuilderError"
        /\ \A k \in OkReturns(i) :
              /\ DOMAIN RecordOf(i, k) = Range(FieldOrder)
              /\ RecordOf(i, k).amc = <<>> <=> AmcLinesBefore(out[i][k].at) = {}
              /\ SchemeLinesBefore(out[i][k].at) = {} =>
                    /\ RecordOf(i, k).category = <<>>
                    /\ RecordOf(i, k).scheme = None
                    /\ RecordOf(i, k).maturity = None
        /\ \A p \in 1..iter[i].reader :
              (RecordDone(source[p]) /\ Returned(i, p)) =>
                  ReturnsAt(i, p) \cap OkReturns(i) # {}

\* a Record yielded for the first line of the source: empty fund-family
\* name, empty category
C8_Witness ==
    \E i \in Sessions : \E k \in OkReturns(i) :
        /\ out[i][k].at = 1
        /\ RecordOf(i, k).amc = <<>>
        /\ RecordOf(i, k).category = <<>>

\* a line that produces a result: a Record line or a failing Scheme line
Producing(o) == IsLine(o, "Record") \/ FailingScheme(o)

\* the positions of the producing lines among the first n outcomes of the
\* source, in given order
RECURSIVE Producers(_)
Producers(n) ==
    IF n = 0 THEN <<>>
    ELSE IF Producing(source[n]) THEN Append(Producers(n - 1), n)
    ELSE Producers(n - 1)

HasLineItem(e) == e.ret # None /\ ~source[e.at].err

\* the items session i has yielded for lines (the other items are the I/O
\* errors of failed reads), in the order of the pulls
LineItems(i) == SelectSeq(out[i], HasLineItem)

\* C9: the k-th item yielded for a line comes from the k-th producing line
\* (a Record line or a failing Scheme line) and is a Record or parse error
\* of that line; Header, Blank, Amc and parsed Scheme lines yield nothing,
\* and once a pull has returned no producing line read so far is left out.
C9_ItemsMirrorProducingLines ==
    \A i \in Sessions :
        LET items == LineItems(i)
            prods == Producers(iter[i].reader)
        IN  /\ Len(items) <= Len(prods)
            /\ Len(prods) <= Len(items) + 1
            /\ call[i].pc = "idle" => Len(items) = Len(prods)
            /\ \A k \in DOMAIN items :
                  /\ items[k].at = prods[k]
                  /\ IF FailingScheme(source[prods[k]])
                     THEN items[k].ret[1] = SynomError(source[prods[k]].text)
                     ELSE \/ items[k].ret[1].kind = "Ok"
                          \/ items[k].ret[1] = SynomError(TrimOf[source[prods[k]].text])

\* three items yielded for the three producing lines of a source that also
\* holds a line that yields nothing
C9_Witness ==
    \E i \in Sessions :
        /\ Len(LineItems(i)) = 3
        /\ iter[i].reader = 4
        /\ call[i].pc = "idle"
        /\ \E k \in DOMAIN LineItems(i) : LineItems(i)[k].ret[1].kind = "Ok"
        /\ \E k \in DOMAIN LineItems(i) : LineItems(i)[k].ret[1].kind = "SynomError"

\* the two sessions have both completed their k-th pull
BothReturned(k) ==
    Len(iter) = 2 /\ k \in DOMAIN out[1] /\ k \in DOMAIN out[2]

\* C10: two sessions over the same source yield identical item sequences,
\* pull for pull (same Records, same errors, same end-of-sequence, from the
\* same lines), and a session that has not read yet holds the empty context
\* with bailout unset, whatever an earlier session has done.
C10_SessionsAgree ==
    /\ \A k \in 1..(MaxLines + MaxEnds) : BothReturned(k) => out[1][k] = out[2][k]
    /\ \A i \in Sessions :
          iter[i].reader = 0 =>
              /\ iter[i].amc = <<>>
              /\ SchemeContext(iter[i]) = SchemeAt(0)
              /\ ~iter[i].bailout

\* both sessions have yielded a Record with a fund-family name, then an
\* error, then end-of-sequence
C10_Witness ==
    /\ BothReturned(3)
    /\ out[2][1].ret # None /\ out[2][1].ret[1].kind = "Ok"
    /\ out[2][1].ret[1].rec.amc # <<>>
    /\ out[2][2].ret # None /\ out[2][2].ret[1].kind # "Ok"
    /\ out[2][3].ret = None

\* ------------------------------------------------------------------------
\* Properties of the parser functions on their own
\* ------------------------------------------------------------------------

Applied(f) == applied # None /\ applied[1].fn = f
Ret == applied[1].ret

\* the longest prefix of s made of characters of S
RunOf(s, S) == Take(s, Largest({k \in 0..Len(s) : AllIn(Take(s, k), S)}))

\* the text at an ISIN position reads as an ISIN or as a placeholder
IsinStart(f) == f # <<>> /\ (Head(f) \in Alphanumerics \/ Head(f) = "-")

\* what a whole field at an ISIN position stands for
IsinMeaning(f) ==
    IF f \in {Dash, TripleDash} THEN <<None>>
    ELSE IF f # <<>> /\ AllIn(f, Alphanumerics) THEN <<Some(f)>>
    ELSE <<>>

\* C11: in the ISIN field parser an alphanumeric run decodes to a present
\* value equal to that run, the placeholders "-" and "---" decode to an
\* absent value and never to an error, and any other first character makes
\* the field fail; in a data line this holds at the isin and at the isin_dr
\* position, and a failing ISIN field fails the line.
C11_IsinFieldDecodes ==
    /\ Applied("parse_isin") =>
          LET run == RunOf(given, Alphanumerics)
          IN  IF run # <<>>
              THEN Ret = Done(Drop(given, Len(run)), Some(run))
              ELSE IF StartsWith(given, TripleDash)
              THEN Ret = Done(Drop(given, Len(TripleDash)), None)
              ELSE IF StartsWith(given, Dash)
              THEN Ret = Done(Drop(given, Len(Dash)), None)
              ELSE Ret = Error
    /\ (Applied("parse_record") /\ given \in DataLines) =>
          LET f == SplitAt(given, ";")
          IN  /\ (~IsinStart(f[2]) \/ ~IsinStart(f[3])) => Ret = Error
              /\ Ret.st = "Done" =>
                    /\ IsinMeaning(f[2]) # <<>> => Ret.val.isin = Some(IsinMeaning(f[2])[1])
                    /\ IsinMeaning(f[3]) # <<>> => Ret.val.isin_dr = Some(IsinMeaning(f[3])[1])
              /\ (/\ IsinMeaning(f[2]) # <<>> /\ IsinMeaning(f[3]) # <<>>
                  /\ f[1] = <<"7">> /\ f[5] = <<"1">>) => Ret.st = "Done"

\* ------------------------------------------------------------------------
\* Properties of sessions, continued
\* ------------------------------------------------------------------------

\* the maturity a section header stands for, read off its text: the text
\* before the first "(", trimmed, compared without regard to letter case
MaturityRef(line) ==
    LET t   == Trim(line)
        k   == FindFrom(t, <<"(">>)
        pre == ToUppercase(Trim(Take(t, k)))
    IN  IF StartsWith(pre, <<"O","P","E","N">>) THEN Some("OpenEnded")
        ELSE IF StartsWith(pre, <<"C","L","O","S","E">>) THEN Some("CloseEnded")
        ELSE None

MaturityRefOf == [t \in Texts |-> MaturityRef(t)]

\* C12: after a Scheme line that parses, the maturity of the context is
\* open-ended when the text before the first "(" (trimmed, any letter case)
\* starts with OPEN, close-ended when it starts with CLOSE and absent for
\* every other prefix; the line yields no item, bailout stays unset, and a
\* Record read next carries that maturity.
C12_MaturityFromPrefix ==
    \A i \in Sessions : \A p \in 1..iter[i].reader :
        ParsedScheme(source[p]) =>
            /\ iter[i].reader = p =>
                  /\ iter[i].maturity = MaturityRefOf[source[p].text]
                  /\ ~iter[i].bailout
            /\ \A k \in ReturnsAt(i, p) : out[i][k].ret = None
            /\ \A k \in OkReturns(i) :
                  out[i][k].at = p + 1 =>
                      RecordOf(i, k).maturity = MaturityRefOf[source[p].text]

\* an open-ended section header, then one with another prefix, then a Record
\* line: the Record was yielded with maturity absent and its category that of
\* the second header
C12_Witness ==
    \E i \in Sessions : \E k \in OkReturns(i) :
        /\ out[i][k].at = 3
        /\ ParsedScheme(source[1]) /\ MaturityRefOf[source[1].text] = Some("OpenEnded")
        /\ ParsedScheme(source[2]) /\ MaturityRefOf[source[2].text] = None
        /\ RecordOf(i, k).maturity = None
        /\ RecordOf(i, k).category # <<>>
        /\ ~iter[i].bailout

\* the text between the first "(" of s and the first ")" after it, with
\* what follows that ")": None when s has no such pair
Parenthesised(s) ==
    LET o == FindFrom(s, <<"(">>)
        c == FindFrom(Drop(s, o + 1), <<")">>)
    IN  IF o < 0 \/ c < 0 THEN None
        ELSE Some([inner |-> SubSeq(s, o + 2, o + 1 + c), rest |-> Drop(s, o + 1 + c)])

\* C13: in the section-header parser the scheme-group label comes only from
\* inside the parentheses: it is the text before the first " - " between
\* the first "(" and the closing ")" and is absent when no " - " occurs
\* there, also when a " - " occurs after the closing ")"; the category is
\* the text ending at the first ")" after the "(", from after the label and
\* its " - " when there is a label.
C13_LabelFromInsideParentheses ==
    (Applied("parse_scheme") /\ Parenthesised(given) # None) =>
        LET inner == Parenthesised(given)[1].inner
            d     == FindFrom(inner, SchemeSep)
        IN  /\ Ret.st = "Done"
            /\ Ret.val.scheme = IF d < 0 THEN None ELSE Some(Take(inner, d))
            /\ Ret.val.category = IF d < 0 THEN inner ELSE Drop(inner, d + Len(SchemeSep))
            /\ Ret.rem = Parenthesised(given)[1].rest

LineTypes == {"Header", "Record", "Scheme", "Amc", "Blank"}

\* the category of a line by the order of the tests, read off its text
Classified(l) ==
    IF Len(l) >= Len(SchemeWord) /\ \A j \in DOMAIN SchemeWord : l[j] = SchemeWord[j]
    THEN "Header"
    ELSE IF ";" \in Range(l) THEN "Record"
    ELSE IF \E k \in 0..(Len(l) - Len(EndedScheme)) :
               SubSeq(l, k + 1, k + Len(EndedScheme)) = EndedScheme
    THEN "Scheme"
    ELSE IF \E j \in DOMAIN l : ~IsWhitespace(l[j]) THEN "Amc"
    ELSE "Blank"

\* l without the line ending it carries, if any
WithoutNewline(l) ==
    IF Len(l) >= 2 /\ SubSeq(l, Len(l) - 1, Len(l)) = <<"\r", "\n">>
    THEN Take(l, Len(l) - 2)
    ELSE IF l # <<>> /\ l[Len(l)] = "\n" THEN Take(l, Len(l) - 1)
    ELSE l

\* C14: the classifier gives every line exactly one of Header, Record,
\* Scheme, Amc, Blank, by strict priority: "Scheme" at the start makes it
\* Header whatever follows; otherwise a semicolon makes it Record; otherwise
\* "Ended Scheme" makes it Scheme; otherwise a line with a non-whitespace
\* character is Amc; otherwise it is Blank.  The answer is the same with
\* and without the trailing newline of the line.
C14_ClassifierByPriority ==
    Applied("line_type") =>
        /\ Ret \in LineTypes
        /\ Ret = Classified(given)
        /\ Ret = line_type(WithoutNewline(given))
        /\ Ret = line_type(given \o <<"\n">>)

\* the classifier answered Header for a line that starts with "Scheme",
\* holds a semicolon and "Ended Scheme" and still carries its newline
C14_Witness ==
    /\ Applied("line_type")
    /\ StartsWith(given, SchemeWord)
    /\ Contains(given, <<";">>)
    /\ Contains(given, EndedScheme)
    /\ WithoutNewline(given) # given
    /\ Ret = "Header"

\* session i reads an outcome of the source in this step
ReadsOutcome(i) == iter'[i].reader = iter[i].reader + 1

\* the outcome session i reads in this step
OutcomeRead(i) == source'[iter'[i].reader]

\* C15: each kind of line changes only its own part of the context.  An Amc
\* line sets the fund-family name and leaves category, scheme-group and
\* maturity; a Scheme line that parses sets those three and leaves the
\* fund-family name; Record lines (yielding a Record or an error), Header
\* and Blank lines and failing Scheme lines leave all four, as does every
\* step that reads no line.
C15_LinesChangeTheirOwnPart ==
    [][\A i \in Sessions :
          IF ReadsOutcome(i) /\ IsLine(OutcomeRead(i), "Amc")
          THEN /\ iter'[i].amc = TrimOf[OutcomeRead(i).text]
               /\ SchemeContext(iter'[i]) = SchemeContext(iter[i])
          ELSE IF ReadsOutcome(i) /\ ParsedScheme(OutcomeRead(i))
          THEN /\ SchemeContext(iter'[i]) = SchemeParseOf[OutcomeRead(i).text].val
               /\ iter'[i].amc = iter[i].amc
          ELSE /\ iter'[i].amc = iter[i].amc
               /\ SchemeContext(iter'[i]) = SchemeContext(iter[i])]_vars

\* a session that read an Amc line, a Scheme line with a label, a Record
\* line and then another Amc line holds the name of the second Amc line and
\* still the category, label and maturity of the Scheme line
C15_Witness ==
    \E i \in Sessions :
        /\ iter[i].reader = 4
        /\ IsLine(source[1], "Amc")
        /\ ParsedScheme(source[2])
        /\ IsLine(source[3], "Record")
        /\ IsLine(source[4], "Amc")
        /\ source[4] # source[1]
        /\ iter[i].amc = TrimOf[source[4].text]
        /\ iter[i].scheme # None
        /\ SchemeContext(iter[i]) = SchemeParseOf[source[2].text].val

\* the returns of session i that are end-of-sequence
EndReturns(i) == {k \in DOMAIN out[i] : out[i][k].ret = None}

\* the source is known to be exhausted at reader position p
ExhaustedAt(p) == eof /\ p = Len(source)

\* the safety part of C16
EndOnlyWhenDone ==
    \A i \in Sessions :
        /\ \A k \in EndReturns(i) : iter[i].bailout \/ ExhaustedAt(out[i][k].at)
        /\ \A k \in EndReturns(i) :
              \A j \in DOMAIN out[i] : j > k => out[i][j].ret = None
        /\ (call[i].pc = "ret" /\ call[i].item = None) => ExhaustedAt(iter[i].reader)

\* a call of next() on the first session is in progress
InCall == 1 \in Sessions /\ call[1].pc \in {"loop", "ret"}

\* no call is in progress: the last one has returned, or has aborted
CallOver == 1 \in Sessions /\ call[1].pc \in {"idle", "panic"}

\* C16: on a finite source every pull ends, and a pull returns
\* end-of-sequence only when the source is exhausted or bailout is set:
\* never while bailout is unset and the source has more to read; once a
\* pull has returned end-of-sequence every later pull returns it too.
C16_PullsEndAndEndIsFinal ==
    /\ []EndOnlyWhenDone
    /\ InCall ~> CallOver

\* the source ended after a Record line that was yielded, and two pulls
\* after that returned end-of-sequence with bailout unset
C16_Witness ==
    \E i \in Sessions :
        /\ ~iter[i].bailout
        /\ eof
        /\ call[i].pc = "idle"
        /\ Cardinality(EndReturns(i)) = 2
        /\ OkReturns(i) # {}
        /\ \A k \in EndReturns(i) : out[i][k].at = Len(source)

\* C17: the decimal-integer lexer consumes the longest run of ASCII digits
\* at the start of its input, fails when the run is empty, and for every
\* non-empty run returns the run decoded as an unsigned integer; for a run
\* above 4294967295 it still returns a value or a failure and does not
\* abort.
C17_DigitLexerDecodes ==
    Applied("digit") =>
        LET run == RunOf(given, AsciiDigits)
        IN  IF run = <<>> THEN Ret = Error
            ELSE /\ Ret.st \in {"Done", "Error"}
                 /\ FitsU32(run) => Ret.st = "Done"
                 /\ Ret.st = "Done" =>
                       /\ Ret.rem = Drop(given, Len(run))
                       /\ Ret.val = StripLeadingZeros(run)
                       /\ Len(run) < Len(U32MaxDigits) =>
                             DigitsToInt(Ret.val) = DigitsToInt(run)

\* the longest prefix of s made of digits and at most one decimal point
DecimalRun(s) ==
    Take(s, Largest({k \in 0..Len(s) :
                        /\ AllIn(Take(s, k), AsciiDigits \cup {"."})
                        /\ Cardinality({j \in 1..k : s[j] = "."}) <= 1}))

\* the decimal a run with at least one digit stands for
DecimalOf(run) ==
    LET d == IF "." \in Range(run) THEN CHOOSE j \in DOMAIN run : run[j] = "."
             ELSE Len(run) + 1
    IN  [int  |-> StripLeadingZeros(IF d = 1 THEN <<"0">> ELSE Take(run, d - 1)),
         frac |-> StripTrailingZeros(Drop(run, d))]

\* the f64 nearest to the decimal dec, in the digits Display prints
NearestOf(dec) ==
    LET ds == dec.int \o dec.frac
    IN  IF Len(ds) <= ExactDigits THEN dec
        ELSE F64Digits(NearestF64(NatNorm([i \in 1..Len(ds) |-> DigitVal(ds[i])]),
                                  Len(dec.frac)))

\* C18: the decimal-float lexer consumes the longest run of digits with at
\* most one decimal point and leaves a second point unconsumed; it fails
\* only when the run is empty and succeeds with the decoded value whenever
\* the input starts with a digit or a point, a point alone included.  A
\* data line whose NAV token holds two points yields a parse error.
C18_DoubleLexerDecodes ==
    /\ Applied("double") =>
          LET run == DecimalRun(given)
          IN  IF run = <<>> THEN Ret = Error
              ELSE /\ Ret.st = "Done"
                   /\ Ret.rem = Drop(given, Len(run))
                   /\ (\E j \in DOMAIN run : run[j] \in AsciiDigits) =>
                         Ret.val = NearestOf(DecimalOf(run))
    /\ (Applied("parse_record") /\ given \in DataLines) =>
          LET f == SplitAt(given, ";")
          IN  (/\ f[1] = <<"7">> /\ f[2] = Dash /\ f[3] = Dash
               /\ Cardinality({j \in DOMAIN f[5] : f[5][j] = "."}) = 2) => Ret = Error

\* the fields parse_record sets, and the fields the Record arm sets
ParsedFields == {"code", "isin", "isin_dr", "name", "plan", "option", "nav", "date"}
ContextFields == {"amc", "category", "scheme", "maturity"}

\* the fields of a builder that have been set
FieldsSet(rb) == {f \in DOMAIN rb : rb[f] # None}

\* an item is a Record, a parse error or an I/O error, and fits the outcome
\* o it was yielded for
ItemFits(item, o) ==
    \/ item.kind = "Ok" /\ RecordDone(o) /\ DOMAIN item.rec = ParsedFields \cup ContextFields
    \/ item.kind = "SynomError" /\ (RecordError(o) \/ FailingScheme(o))
    \/ item.kind = "IoError" /\ o.err

\* C19: a session never yields a build error.  The data-line parser sets
\* its eight fields and the Record arm sets the four context fields from
\* the current context, so every Record line that passes the data-line
\* parser yields a Record; the only error items are parse errors (of a
\* Record line or a Scheme line) and I/O errors.
C19_NoBuildError ==
    \A i \in Sessions :
        /\ \A k \in DOMAIN out[i] :
              out[i][k].ret # None => ItemFits(out[i][k].ret[1], source[out[i][k].at])
        /\ call[i].item # None => ItemFits(call[i].item[1], source[iter[i].reader])
        /\ \A p \in 1..iter[i].reader :
              RecordDone(source[p]) =>
                  /\ FieldsSet(RecordParseOf[source[p].text].val) = ParsedFields
                  /\ Returned(i, p) =>
                        \E k \in ReturnsAt(i, p) :
                            /\ out[i][k].ret # None
                            /\ out[i][k].ret[1].kind = "Ok"

\* a session has yielded a Record for the first line of the source, with
\* the initial context, and after it a parse error and an I/O error
C19_Witness ==
    \E i \in Sessions : \E a, b, c \in DOMAIN out[i] :
        /\ out[i][a].at = 1
        /\ out[i][a].ret # None /\ out[i][a].ret[1].kind = "Ok"
        /\ out[i][a].ret[1].rec.scheme = None
        /\ out[i][a].ret[1].rec.maturity = None
        /\ out[i][b].ret # None /\ out[i][b].ret[1].kind = "SynomError"
        /\ out[i][c].ret # None /\ out[i][c].ret[1].kind = "IoError"

====
